---- MODULE Spec2Model ----
(***************************************************************************)
(* Model of worley_noise.h: worley::worleyNoise3D and the helpers in       *)
(* worley::details (distance, toVector3f, generateFeaturePoints, mapValue).*)
(*                                                                         *)
(* float is IEEE-754 binary32.  A finite float is represented by the       *)
(* integer whose magnitude is the float's 31 low bits (exponent and        *)
(* fraction) and whose sign is the float's sign; -0.0 and +0.0 are both 0. *)
(* With this encoding the order of the floats is the order of the          *)
(* integers.  Arithmetic is round-to-nearest-even, computed on the         *)
(* mantissas; every intermediate value fits TLC's 32-bit integers.         *)
(***************************************************************************)
EXTENDS Integers, Sequences, FiniteSets

\* ------------------------------------------------------------ bounds
MaxSize == 5
MaxSeed == 7
MaxLatticeEdge == 4

\* ------------------------------------------------------------ binary32
\* FLT_MANT_DIG: the number of mantissa bits of a float.
MantDig == 24
\* The bits of 1.f, 3.f, FLT_MAX and +infinity.
One == 1065353216
Three == 1077936128
FltMax == 2139095039
InfBits == FltMax + 1

Pow2(n) == 2 ^ n

Abs(n) == IF n < 0 THEN -n ELSE n

Sgn(n) == IF n < 0 THEN -1 ELSE 1

Max(a, b) == IF a >= b THEN a ELSE b

\* The number of bits of m >= 0: the least k with m < 2^k.
BitLen(m) ==
  LET a == IF m >= 65536 THEN 16 ELSE 0
      m1 == m \div Pow2(a)
      b == IF m1 >= 256 THEN 8 ELSE 0
      m2 == m1 \div Pow2(b)
      c == IF m2 >= 16 THEN 4 ELSE 0
      m3 == m2 \div Pow2(c)
      d == IF m3 >= 4 THEN 2 ELSE 0
      m4 == m3 \div Pow2(d)
  IN a + b + c + d + (IF m4 >= 2 THEN 2 ELSE m4)

\* The mantissa and the exponent of the float with magnitude bits p:
\* its magnitude is F32Man(p) * 2^F32Exp(p).
F32Man(p) ==
  IF p \div Pow2(MantDig - 1) = 0 THEN p
  ELSE Pow2(MantDig - 1) + (p % Pow2(MantDig - 1))

F32Exp(p) == Max(p \div Pow2(MantDig - 1), 1) - 150

\* m shifted right by s bits (left when s <= 0), rounded to nearest, ties to
\* even; sticky says that non-zero bits were already dropped below m.
RoundShift(m, s, sticky) ==
  IF s <= 0 THEN m * Pow2(-s)
  ELSE IF s > 30 THEN 0
  ELSE LET d == Pow2(s)
           q == m \div d
           r == m % d
           h == d \div 2
           up == r > h \/ (r = h /\ (sticky \/ (q % 2) = 1))
       IN IF up THEN q + 1 ELSE q

\* The bits of the float nearest to m * 2^e (m >= 0).
RoundPack(m, e, sticky) ==
  IF m = 0 THEN 0
  ELSE LET er == Max(e + BitLen(m) - MantDig, -149)
           q == RoundShift(m, er - e, sticky)
       IN IF er + 149 >= 255 THEN InfBits
          ELSE LET p == ((er + 149) * Pow2(MantDig - 1)) + q
               IN IF p >= InfBits THEN InfBits ELSE p

\* static_cast<float>(n) of an integer n, |n| < 2^31.
F32FromInt(n) == Sgn(n) * RoundPack(Abs(n), 0, FALSE)

F32Neg(a) == -a

\* a + b.  The operand of smaller exponent is aligned with three guard bits,
\* the last one sticky.
F32Add(a, b) ==
  IF a = 0 THEN b
  ELSE IF b = 0 THEN a
  ELSE LET swap == F32Exp(Abs(a)) < F32Exp(Abs(b))
           hi == IF swap THEN b ELSE a
           lo == IF swap THEN a ELSE b
           eh == F32Exp(Abs(hi))
           diff == eh - F32Exp(Abs(lo))
           mh == F32Man(Abs(hi)) * 8
           ml8 == F32Man(Abs(lo)) * 8
           ml == IF diff >= 27 THEN 1
                 ELSE (ml8 \div Pow2(diff))
                      + (IF (ml8 % Pow2(diff)) # 0 /\ ((ml8 \div Pow2(diff)) % 2) = 0
                         THEN 1 ELSE 0)
           s == (Sgn(hi) * mh) + (Sgn(lo) * ml)
       IN Sgn(s) * RoundPack(Abs(s), eh - 3, FALSE)

F32Sub(a, b) == F32Add(a, F32Neg(b))

\* a * b.  The 48-bit product of the mantissas is formed from 12-bit halves.
F32Mul(a, b) ==
  IF a = 0 \/ b = 0 THEN 0
  ELSE LET ma == F32Man(Abs(a))
           mb == F32Man(Abs(b))
           ah == ma \div 4096
           al == ma % 4096
           bh == mb \div 4096
           bl == mb % 4096
           mid == (ah * bl) + (al * bh)
           low == (al * bl) + ((mid % 4096) * 4096)
           high == (ah * bh) + (mid \div 4096) + (low \div Pow2(24))
           l0 == low % Pow2(24)
           m == (high * 4) + (l0 \div Pow2(22))
           e == F32Exp(Abs(a)) + F32Exp(Abs(b)) + 22
       IN Sgn(a) * Sgn(b) * RoundPack(m, e, (l0 % Pow2(22)) # 0)

\* One step of long division: `bits' more quotient bits.
DivStep(qr, mb, bits) ==
  LET r == qr[2] * Pow2(bits)
  IN <<(qr[1] * Pow2(bits)) + (r \div mb), r % mb>>

\* a / b for b # 0, by long division to 26 quotient bits and a sticky bit.
F32Div(a, b) ==
  IF a = 0 THEN 0
  ELSE LET ma == F32Man(Abs(a)) * Pow2(MantDig - BitLen(F32Man(Abs(a))))
           ea == F32Exp(Abs(a)) - (MantDig - BitLen(F32Man(Abs(a))))
           mb == F32Man(Abs(b)) * Pow2(MantDig - BitLen(F32Man(Abs(b))))
           eb == F32Exp(Abs(b)) - (MantDig - BitLen(F32Man(Abs(b))))
           q0 == <<ma \div mb, ma % mb>>
           q1 == DivStep(q0, mb, 6)
           q2 == DivStep(q1, mb, 6)
           q3 == DivStep(q2, mb, 6)
           q4 == DivStep(q3, mb, 6)
           q5 == DivStep(q4, mb, 2)
       IN Sgn(a) * Sgn(b) * RoundPack(q5[1], ea - eb - 26, q5[2] # 0)

\* The integer square root of n with its remainder, one bit per step: pr is
\* <<root so far, remainder so far>>, and the next two bits of n are taken
\* from position 2*k - 2; below position 0 they are zero.
RECURSIVE SqrtBits(_, _, _, _)
SqrtBits(n, k, stop, pr) ==
  IF k = stop THEN pr
  ELSE LET two == IF k >= 1 THEN (n \div Pow2((2 * k) - 2)) % 4 ELSE 0
           r == (pr[2] * 4) + two
           t == (pr[1] * 4) + 1
       IN IF r >= t THEN SqrtBits(n, k - 1, stop, <<(pr[1] * 2) + 1, r - t>>)
          ELSE SqrtBits(n, k - 1, stop, <<pr[1] * 2, r>>)

\* sqrtf(a) for a >= 0: the integer root of the mantissa, continued by 13
\* bits below the point, and a sticky bit.
F32Sqrt(a) ==
  IF a = 0 THEN 0
  ELSE LET odd == (F32Exp(a) % 2) # 0
           n == IF odd THEN F32Man(a) * 2 ELSE F32Man(a)
           e == IF odd THEN F32Exp(a) - 1 ELSE F32Exp(a)
           whole == SqrtBits(n, 13, 0, <<0, 0>>)
           pr == SqrtBits(n, 0, -13, whole)
       IN RoundPack(pr[1], (e \div 2) - 13, pr[2] # 0)

\* ------------------------------------------------------------ details
\* The largest coordinate of a voxel or feature point in either specification.
MaxCoord == Max(MaxSize, 3 * MaxLatticeEdge) - 1

\* The floats that distance meets on coordinates in 0..MaxCoord, and its
\* operations tabulated on them, so that each is computed once: the floats of
\* the coordinates, their differences, the squares of the differences, the
\* sums of two and of three squares, and the roots of the sums.
FloatMemo == [n \in 0..MaxCoord |-> F32FromInt(n)]

CoordFloats == {FloatMemo[n] : n \in 0..MaxCoord}

SubMemo == [a \in CoordFloats |-> [b \in CoordFloats |-> F32Sub(a, b)]]

DiffFloats == {SubMemo[a][b] : a \in CoordFloats, b \in CoordFloats}

SquareMemo == [d \in DiffFloats |-> F32Mul(d, d)]

SquareFloats == {SquareMemo[d] : d \in DiffFloats}

AddMemo ==
  [a \in SquareFloats |-> [b \in SquareFloats |-> F32Add(a, b)]]

Sum2Floats == {AddMemo[a][b] : a \in SquareFloats, b \in SquareFloats}

Add3Memo ==
  [a \in Sum2Floats |-> [b \in SquareFloats |-> F32Add(a, b)]]

Sum3Floats == {Add3Memo[a][b] : a \in Sum2Floats, b \in SquareFloats}

SqrtMemo == [s \in Sum3Floats |-> F32Sqrt(s)]

\* distance(v1, v2): the Euclidean distance of two Vector3f, that is
\* sqrtf(dx * dx + dy * dy + dz * dz) with dx = v2.x - v1.x and so on.
distance(v1, v2) ==
  LET dx == SubMemo[v2[1]][v1[1]]
      dy == SubMemo[v2[2]][v1[2]]
      dz == SubMemo[v2[3]][v1[3]]
  IN SqrtMemo[Add3Memo[AddMemo[SquareMemo[dx]][SquareMemo[dy]]][SquareMemo[dz]]]

\* toVector3f(v): the Vector3i v, each component cast to float; the same
\* casts give the Vector3f of the voxel <<x, y, z>>.
toVector3f(v) == <<FloatMemo[v[1]], FloatMemo[v[2]], FloatMemo[v[3]]>>

\* The map with value measured from oldMax instead of oldMin.
mapValueFromMax(value, oldMin, oldMax, newMin, newMax) ==
  F32Add(newMin,
         F32Div(F32Mul(F32Sub(value, oldMax), F32Sub(newMax, newMin)),
                F32Sub(oldMax, oldMin)))

\* mapValue: the affine map of [oldMin, oldMax] onto [newMin, newMax].
mapValue(value, oldMin, oldMax, newMin, newMax) ==
  F32Add(newMin,
         F32Div(F32Mul(F32Sub(value, oldMin), F32Sub(newMax, newMin)),
                F32Sub(oldMax, oldMin)))

\* std::mt19937::operator(): the engine's next output.  The library engine is
\* deterministic in its seed; it is abstracted by a small linear congruential
\* generator, of which the model uses only that its outputs are non-negative.
Mt19937Next(state) == ((75 * state) + 74) % 65537

\* A distribution whose range is one too wide.
UniformIntWide(lo, hi, raw) == lo + (raw % (hi - lo + 2))

\* std::uniform_int_distribution(lo, hi) applied to one engine output.
UniformInt(lo, hi, raw) == lo + (raw % (hi - lo + 1))

\* The linear index with the roles of w and d exchanged.
toLinearIndexSwapped(sz, w, h, d) == d + (h * sz) + (w * sz * sz)

\* The toLinearIndex lambda of worleyNoise3D, which captures size.
toLinearIndex(sz, w, h, d) == w + (h * sz) + (d * sz * sz)

\* The successor of <<a, b, c>> in three nested loops over [0, n), the first
\* component outermost; <<n, 0, 0>> when the loops are over.
LoopNext(t, n) ==
  IF t[3] + 1 < n THEN <<t[1], t[2], t[3] + 1>>
  ELSE IF t[2] + 1 < n THEN <<t[1], t[2] + 1, 0>>
  ELSE <<t[1] + 1, 0, 0>>

\* The least and the greatest element of a non-empty set of numbers.
Least(S) == CHOOSE m \in S : \A o \in S : m <= o

Greatest(S) == CHOOSE m \in S : \A o \in S : m >= o

\* The scan with the comparison reversed: min becomes d whenever d > min.
ScanMinReversed(points, vf, min) ==
  Greatest({min} \cup {distance(toVector3f(points[n]), vf) :
                         n \in 1..Len(points)})

\* The loop over featurePoints of worleyNoise3D: min, initially FLT_MAX,
\* becomes d whenever the distance d from the voxel vf to the next point is
\* less than min, so it ends as the least of its initial value and the
\* distances to all the points.
ScanMin(points, vf, min) ==
  Least({min} \cup {distance(toVector3f(points[n]), vf) :
                      n \in 1..Len(points)})

\* The stored value clamped at zero, and the stored value without the
\* inversion.
NoiseOfClamped(min, maxDist) ==
  Max(0, F32Sub(One, mapValue(min, 0, maxDist, 0, One)))

NoiseOfNotInverted(min, maxDist) == mapValue(min, 0, maxDist, 0, One)

\* The value worleyNoise3D stores for a voxel whose least distance is min.
NoiseOf(min, maxDist) == F32Sub(One, mapValue(min, 0, maxDist, 0, One))

\* The cell size as the quotient of the two sizes converted to float first.
CellSizeFReal(sz, grid) == F32Div(F32FromInt(sz), F32FromInt(grid))

\* const float sizeOfEachCell = size / gridSize: the quotient of two
\* std::size_t is an integer division, and its result is converted to float.
CellSizeF(sz, grid) == F32FromInt(sz \div grid)

\* The edge of a cell instead of its diagonal.
MaxDistOfEdge(cellF) == F32Sqrt(F32Mul(cellF, cellF))

\* const float maxCellDistance = sqrtf(sizeOfEachCell * sizeOfEachCell * 3.f).
MaxDistOf(cellF) == F32Sqrt(F32Mul(F32Mul(cellF, cellF), Three))

\* ------------------------------------------------------------ state
VARIABLES
  size,             \* parameter size of worleyNoise3D
  gridSize,         \* parameter gridSize of worleyNoise3D
  rd,               \* the value std::random_device delivers to this call
  argOrder,         \* the order in which the build evaluates call arguments
  pc,               \* where the call is
  resultNoise,      \* worleyNoise3D: the result vector, by linear index
  sizeOfEachCellF,  \* worleyNoise3D: const float sizeOfEachCell
  maxCellDistance,  \* worleyNoise3D: const float maxCellDistance
  engine,           \* generateFeaturePoints: the state of the engine
  sizeOfEachCell,   \* generateFeaturePoints: const int sizeOfEachCell
  cell,             \* generateFeaturePoints: the loop counters <<i, j, k>>
  featurePoints,    \* the vector of feature points
  voxel,            \* worleyNoise3D: the loop counters <<x, y, z>>
  writeCount        \* how often each entry of resultNoise was assigned

vars == <<size, gridSize, rd, argOrder, pc, resultNoise, sizeOfEachCellF,
          maxCellDistance, engine, sizeOfEachCell, cell, featurePoints, voxel,
          writeCount>>

\* The state at the call of worleyNoise3D, the locals not yet initialised.
Entry ==
  /\ pc = "entry"
  /\ argOrder \in {"ltr", "rtl"}
  /\ resultNoise = <<>>
  /\ sizeOfEachCellF = 0
  /\ maxCellDistance = 0
  /\ engine = 0
  /\ sizeOfEachCell = 0
  /\ cell = <<0, 0, 0>>
  /\ featurePoints = <<>>
  /\ voxel = <<0, 0, 0>>
  /\ writeCount = <<>>

\* Every valid call: 0 < gridSize <= size <= MaxSize.
Init ==
  /\ size \in 1..MaxSize
  /\ gridSize \in 1..size
  /\ rd \in 0..MaxSeed
  /\ Entry

\* Calls on a lattice of 3 x 3 x 3 cells of an edge up to MaxLatticeEdge.
InitLattice ==
  /\ gridSize = 3
  /\ size \in 3..(3 * MaxLatticeEdge)
  /\ rd \in {0, 3945}
  /\ Entry

\* worleyNoise3D up to the call of generateFeaturePoints: the result vector
\* is value-initialised, the cell size is the quotient of two std::size_t,
\* converted to float.
Allocate ==
  /\ pc = "entry"
  /\ resultNoise' = [n \in 0..((size * size * size) - 1) |-> 0]
  /\ writeCount' = [n \in 0..((size * size * size) - 1) |-> 0]
  /\ sizeOfEachCellF' = CellSizeF(size, gridSize)
  /\ maxCellDistance' = MaxDistOf(CellSizeF(size, gridSize))
  /\ pc' = "call"
  /\ UNCHANGED <<size, gridSize, rd, argOrder, engine, sizeOfEachCell, cell,
                 featurePoints, voxel>>

\* generateFeaturePoints before its loops: the engine is seeded from the
\* random device and the cell size is computed.
SeedEngine ==
  /\ pc = "call"
  /\ engine' = rd
  /\ sizeOfEachCell' = size \div gridSize
  /\ featurePoints' = <<>>
  /\ cell' = <<0, 0, 0>>
  /\ pc' = "generate"
  /\ UNCHANGED <<size, gridSize, rd, argOrder, resultNoise, sizeOfEachCellF,
                 maxCellDistance, voxel, writeCount>>

\* One iteration of the innermost loop of generateFeaturePoints: three draws
\* from dist(0, sizeOfEachCell - 1), in the order in which the build
\* evaluates the arguments of emplace_back, and the point of cell <<i, j, k>>
\* appended.  After the last cell the function returns and worleyNoise3D
\* enters its loops.
EmplacePoint ==
  /\ pc = "generate"
  /\ LET e1 == Mt19937Next(engine)
         e2 == Mt19937Next(e1)
         e3 == Mt19937Next(e2)
         d1 == UniformInt(0, sizeOfEachCell - 1, e1)
         d2 == UniformInt(0, sizeOfEachCell - 1, e2)
         d3 == UniformInt(0, sizeOfEachCell - 1, e3)
         rx == IF argOrder = "ltr" THEN d1 ELSE d3
         rz == IF argOrder = "ltr" THEN d3 ELSE d1
         next == LoopNext(cell, gridSize)
     IN /\ featurePoints' =
             Append(featurePoints,
                    <<(cell[1] * sizeOfEachCell) + rx,
                      (cell[2] * sizeOfEachCell) + d2,
                      (cell[3] * sizeOfEachCell) + rz>>)
        /\ engine' = e3
        /\ cell' = next
        /\ pc' = IF next[1] < gridSize THEN "generate" ELSE "evaluate"
  /\ UNCHANGED <<size, gridSize, rd, argOrder, resultNoise, sizeOfEachCellF,
                 maxCellDistance, sizeOfEachCell, voxel, writeCount>>

\* One iteration of the innermost voxel loop of worleyNoise3D: the scan of
\* all feature points and the store.  After the last voxel the call returns.
EvaluateVoxel ==
  /\ pc = "evaluate"
  /\ LET min == ScanMin(featurePoints, toVector3f(voxel), FltMax)
         at == toLinearIndex(size, voxel[1], voxel[2], voxel[3])
         next == LoopNext(voxel, size)
     IN /\ resultNoise' =
             [resultNoise EXCEPT ![at] = NoiseOf(min, maxCellDistance)]
        /\ writeCount' = [writeCount EXCEPT ![at] = @ + 1]
        /\ voxel' = next
        /\ pc' = IF next[1] < size THEN "evaluate" ELSE "done"
  /\ UNCHANGED <<size, gridSize, rd, argOrder, sizeOfEachCellF,
                 maxCellDistance, engine, sizeOfEachCell, cell, featurePoints>>

Next == Allocate \/ SeedEngine \/ EmplacePoint \/ EvaluateVoxel

Spec == Init /\ [][Next]_vars

SpecLattice == InitLattice /\ [][Next]_vars

\* ------------------------------------------------------------ properties
\* The mathematics the properties are stated in: exact integers.
CellEdge == size \div gridSize

Voxels == {<<x, y, z>> : x \in 0..(size - 1), y \in 0..(size - 1),
                          z \in 0..(size - 1)}

Cube(n) == n * n * n

Started == pc # "entry"

Generated == pc \in {"evaluate", "done"}

\* The entry of the result for voxel v, by the index x + y*size + z*size^2.
Stored(v) == resultNoise[v[1] + (v[2] * size) + (v[3] * size * size)]

TimesStored(v) == writeCount[v[1] + (v[2] * size) + (v[3] * size * size)]

\* The cell <<i, j, k>> of the n-th feature point, i outermost.
PointCell(n) ==
  <<(n - 1) \div (gridSize * gridSize), ((n - 1) \div gridSize) % gridSize,
    (n - 1) % gridSize>>

PointIndices == 1..Len(featurePoints)

SqDist(p, v) ==
  ((p[1] - v[1]) * (p[1] - v[1])) + ((p[2] - v[2]) * (p[2] - v[2]))
    + ((p[3] - v[3]) * (p[3] - v[3]))

\* The square of the distance from v to the nearest feature point.
MinSqDist(v) == Least({SqDist(featurePoints[n], v) : n \in PointIndices})

\* C1: when worleyNoise3D returns, the result has exactly size^3 entries, the
\* entry at x + y*size + z*size^2 is the value computed for voxel <<x, y, z>>,
\* and every entry was written exactly once (never more than once on the way).
C1_OutputShape ==
  /\ Started =>
       /\ DOMAIN resultNoise = 0..(Cube(size) - 1)
       /\ Cardinality(DOMAIN resultNoise) = Cube(size)
       /\ \A n \in DOMAIN writeCount : writeCount[n] <= 1
  /\ pc = "done" =>
       /\ \A n \in DOMAIN writeCount : writeCount[n] = 1
       /\ \A v \in Voxels :
            Stored(v) = NoiseOf(ScanMin(featurePoints, toVector3f(v), FltMax),
                                maxCellDistance)

\* A finished call on a volume in which the values of <<x, y, z>> and
\* <<z, y, x>> differ for some voxel, so that the index order shows.
C1_Witness ==
  /\ pc = "done"
  /\ size >= 3
  /\ \E v \in Voxels : Stored(v) # Stored(<<v[3], v[2], v[1]>>)

\* C2: generateFeaturePoints returns exactly gridSize^3 points, the n-th one
\* that of cell <<i, j, k>> in i-outermost order, each coordinate within
\* [i*cellEdge, (i+1)*cellEdge - 1]; so every point is inside the volume and no
\* two points coincide.
C2_CellOccupancy ==
  /\ Len(featurePoints) <= Cube(gridSize)
  /\ Generated => Len(featurePoints) = Cube(gridSize)
  /\ \A n \in PointIndices : \A a \in 1..3 :
       /\ PointCell(n)[a] * CellEdge <= featurePoints[n][a]
       /\ featurePoints[n][a] <= ((PointCell(n)[a] + 1) * CellEdge) - 1
       /\ featurePoints[n][a] \in 0..(size - 1)
  /\ Cardinality({featurePoints[n] : n \in PointIndices}) = Len(featurePoints)

\* All points generated on a grid of several cells of several voxels, one
\* point at the low end of its cell's range and one at the high end.
C2_Witness ==
  /\ Generated
  /\ gridSize >= 2
  /\ CellEdge >= 2
  /\ \E n \in PointIndices : featurePoints[n][1] = PointCell(n)[1] * CellEdge
  /\ \E n \in PointIndices :
       featurePoints[n][1] = ((PointCell(n)[1] + 1) * CellEdge) - 1

\* C3: the value stored at the voxel whose coordinates are those of a feature
\* point is exactly 1, for every feature point.
C3_FeaturePointCoincidence ==
  Generated =>
    \A n \in PointIndices :
      /\ \A a \in 1..3 : featurePoints[n][a] \in 0..(size - 1)
      /\ pc = "done" => TimesStored(featurePoints[n]) = 1
      /\ TimesStored(featurePoints[n]) = 1 => Stored(featurePoints[n]) = One

\* A finished call with several feature points and a voxel that is none.
C3_Witness ==
  /\ pc = "done"
  /\ gridSize >= 2
  /\ CellEdge >= 2
  /\ \E v \in Voxels : Stored(v) # One
  /\ \A n \in PointIndices : Stored(featurePoints[n]) = One

\* C4: every output value is <= 1, and a voxel whose least distance exceeds
\* maxCellDistance (squared distance > 3 * cellEdge^2) has a negative value:
\* nothing clamps the value at 0.
C4_Unclamped ==
  pc = "done" =>
    \A v \in Voxels :
      /\ Stored(v) <= One
      /\ MinSqDist(v) > 3 * CellEdge * CellEdge => Stored(v) < 0

\* A finished call with a voxel farther than maxCellDistance from every
\* feature point, whose value is negative.
C4_Witness ==
  /\ pc = "done"
  /\ \E v \in Voxels :
       MinSqDist(v) > 3 * CellEdge * CellEdge /\ Stored(v) < 0

\* C5: when size = gridSize the draws range over [0, 0], the feature point of
\* cell <<i, j, k>> is <<i, j, k>>, and every voxel's value is 1.
C5_DegenerateGrid ==
  size = gridSize =>
    /\ pc \in {"generate", "evaluate", "done"} => sizeOfEachCell - 1 = 0
    /\ \A n \in PointIndices : featurePoints[n] = PointCell(n)
    /\ pc = "done" => \A v \in Voxels : Stored(v) = One

\* A finished call with one voxel per cell on a grid of at least 27 cells.
C5_Witness ==
  /\ pc = "done"
  /\ size = gridSize
  /\ size >= 3
  /\ \A v \in Voxels : Stored(v) = One /\ \E n \in PointIndices : featurePoints[n] = v

\* C6: the output is a non-increasing function of the voxel's least distance
\* to a feature point: of two voxels, the one that is not farther from its
\* nearest point has the value that is not smaller.  In particular this holds
\* along a ray from a feature point through its own cell.
C6_Monotone ==
  pc = "done" =>
    LET levels == {<<MinSqDist(v), Stored(v)>> : v \in Voxels}
    IN \A a \in levels : \A b \in levels : a[1] <= b[1] => a[2] >= b[2]

\* A finished call with a feature point p and voxels a and b on one ray from
\* p, in p's cell and nearest to p, b twice as far as a and darker than a.
C6_Witness ==
  /\ pc = "done"
  /\ \E n \in PointIndices : \E a \in Voxels :
       LET p == featurePoints[n]
           b == <<(2 * a[1]) - p[1], (2 * a[2]) - p[2], (2 * a[3]) - p[3]>>
       IN /\ a # p
          /\ b \in Voxels
          /\ \A i \in 1..3 : a[i] \div CellEdge = PointCell(n)[i]
          /\ \A i \in 1..3 : b[i] \div CellEdge = PointCell(n)[i]
          /\ MinSqDist(a) = SqDist(p, a)
          /\ MinSqDist(b) = SqDist(p, b)
          /\ Stored(a) > Stored(b)

\* C7 as claimed: the Evaluator's cell edge is the untruncated quotient
\* size / gridSize, and differs from the Generator's truncated cell edge
\* whenever gridSize does not divide size.
C7_RealQuotient ==
  Started =>
    /\ sizeOfEachCellF = F32Div(F32FromInt(size), F32FromInt(gridSize))
    /\ (Generated /\ size % gridSize # 0) =>
         sizeOfEachCellF # F32FromInt(sizeOfEachCell)

\* C7 as amended: the Evaluator's cell edge is the truncated quotient
\* floor(size / gridSize) as a float, the same number as the Generator's cell
\* edge whether or not gridSize divides size, and maxCellDistance is the root
\* of three times its square.
C7_TruncatedQuotient ==
  /\ Started =>
       /\ sizeOfEachCellF = F32FromInt(CellEdge)
       /\ maxCellDistance = F32Sqrt(F32FromInt(3 * CellEdge * CellEdge))
  /\ pc \in {"generate", "evaluate", "done"} =>
       sizeOfEachCellF = F32FromInt(sizeOfEachCell)

\* A finished call with gridSize not dividing size, in which the Evaluator's
\* cell edge is the Generator's and is not the untruncated quotient.
C7_Witness ==
  /\ pc = "done"
  /\ size % gridSize # 0
  /\ sizeOfEachCellF = F32FromInt(sizeOfEachCell)
  /\ sizeOfEachCellF # F32Div(F32FromInt(size), F32FromInt(gridSize))

\* The cell of voxel v; a voxel beyond the last cell is counted to the last
\* cell.
CellOf(v) ==
  [a \in 1..3 |->
     IF v[a] \div CellEdge < gridSize THEN v[a] \div CellEdge ELSE gridSize - 1]

\* The feature points of the cells at most one cell away from v's cell.
Neighbours(v) ==
  {n \in PointIndices :
     \A a \in 1..3 : PointCell(n)[a] - CellOf(v)[a] \in -1..1}

\* The scan of worleyNoise3D restricted to the neighbourhood of v.
NeighbourMin(v) ==
  Least({FltMax} \cup {distance(toVector3f(featurePoints[n]), toVector3f(v)) :
                         n \in Neighbours(v)})

\* The voxel stored by the last step, once there is one.
JustStored == pc \in {"evaluate", "done"} /\ voxel # <<0, 0, 0>>

LastVoxel ==
  IF voxel[3] > 0 THEN <<voxel[1], voxel[2], voxel[3] - 1>>
  ELSE IF voxel[2] > 0 THEN <<voxel[1], voxel[2] - 1, size - 1>>
  ELSE <<voxel[1] - 1, size - 1, size - 1>>

InsideLattice(v) == \A a \in 1..3 : v[a] < gridSize * CellEdge

\* C8 as claimed: for every voxel, the nearest feature point is among those of
\* the 3 x 3 x 3 cells around the voxel's cell, so the scan of these alone
\* gives the value that worleyNoise3D stores.
C8_NeighbourhoodSuffices ==
  JustStored =>
    /\ Neighbours(LastVoxel) # {}
    /\ MinSqDist(LastVoxel)
         = Least({SqDist(featurePoints[n], LastVoxel) : n \in Neighbours(LastVoxel)})
    /\ Stored(LastVoxel) = NoiseOf(NeighbourMin(LastVoxel), maxCellDistance)

\* C8 as amended: the same for cells of edge at most 3 and voxels inside the
\* lattice of cells (all voxels when gridSize divides size).
C8_NeighbourhoodSmallCells ==
  (JustStored /\ CellEdge <= 3 /\ InsideLattice(LastVoxel)) =>
    /\ Neighbours(LastVoxel) # {}
    /\ MinSqDist(LastVoxel)
         = Least({SqDist(featurePoints[n], LastVoxel) : n \in Neighbours(LastVoxel)})
    /\ Stored(LastVoxel) = NoiseOf(NeighbourMin(LastVoxel), maxCellDistance)

\* A voxel stored on a lattice of cells of edge 3, the nearest point outside
\* the voxel's own cell, some cells outside its neighbourhood.
C8_Witness ==
  /\ JustStored
  /\ CellEdge = 3
  /\ InsideLattice(LastVoxel)
  /\ Neighbours(LastVoxel) # PointIndices
  /\ \E n \in Neighbours(LastVoxel) :
       /\ PointCell(n) # CellOf(LastVoxel)
       /\ SqDist(featurePoints[n], LastVoxel) = MinSqDist(LastVoxel)
       /\ \A m \in PointIndices :
            PointCell(m) = CellOf(LastVoxel) =>
              SqDist(featurePoints[m], LastVoxel) > MinSqDist(LastVoxel)
  /\ Stored(LastVoxel) = NoiseOf(NeighbourMin(LastVoxel), maxCellDistance)

\* C9 as claimed: when gridSize does not divide size, the range in which the
\* feature point of a cell of index gridSize - 1 is placed spans fewer voxels
\* than the cellEdge voxels of a cell of smaller index: its offset from the
\* cell's origin stays below cellEdge - 1.
C9_LastCellNarrower ==
  (size % gridSize # 0 /\ gridSize > 1) =>
    \A n \in PointIndices : \A a \in 1..3 :
      PointCell(n)[a] = gridSize - 1 =>
        featurePoints[n][a] - (PointCell(n)[a] * CellEdge) < CellEdge - 1

\* C9 as amended: when gridSize does not divide size, every cell, the last
\* ones included, has a range of cellEdge voxels; the voxels from
\* gridSize * cellEdge on belong to no cell and hold no feature point; and the
\* call returns with these voxels assigned like the others.
C9_EqualCellsAndRemainder ==
  size % gridSize # 0 =>
    /\ gridSize * CellEdge < size
    /\ \A n \in PointIndices : \A a \in 1..3 :
         /\ featurePoints[n][a] - (PointCell(n)[a] * CellEdge) \in 0..(CellEdge - 1)
         /\ featurePoints[n][a] < gridSize * CellEdge
    /\ pc = "done" =>
         \A v \in Voxels : ~InsideLattice(v) => TimesStored(v) = 1

\* A finished call with gridSize not dividing size and cells of several
\* voxels, the point of a last cell at the largest offset, cellEdge - 1.
C9_Witness ==
  /\ pc = "done"
  /\ size % gridSize # 0
  /\ gridSize > 1
  /\ CellEdge > 1
  /\ \E n \in PointIndices : \E a \in 1..3 :
       /\ PointCell(n)[a] = gridSize - 1
       /\ featurePoints[n][a] - (PointCell(n)[a] * CellEdge) = CellEdge - 1

\* C10: when gridSize divides size, every voxel is within sqrt(3)*(cellEdge-1)
\* of a feature point, which is less than maxCellDistance, and every output
\* value lies in (0, 1].
C10_DivisibleRange ==
  (pc = "done" /\ size % gridSize = 0) =>
    \A v \in Voxels :
      /\ MinSqDist(v) <= 3 * (CellEdge - 1) * (CellEdge - 1)
      /\ F32Sqrt(F32FromInt(MinSqDist(v))) < maxCellDistance
      /\ Stored(v) > 0
      /\ Stored(v) <= One

\* A finished call with gridSize dividing size and cells of several voxels,
\* a voxel at the largest distance sqrt(3)*(cellEdge-1) with a value below 1.
C10_Witness ==
  /\ pc = "done"
  /\ size % gridSize = 0
  /\ CellEdge >= 2
  /\ \E v \in Voxels :
       /\ MinSqDist(v) = 3 * (CellEdge - 1) * (CellEdge - 1)
       /\ Stored(v) > 0
       /\ Stored(v) < One

====
